---- MODULE Spec2Model ----
(***************************************************************************)
(* Session controller of the LineDrive AI chat page (ChatInterface).       *)
(* Two variants of the component exist in the repository:                  *)
(*   "flag" : the component with the isLoading state (part_000)            *)
(*   "page" : frontend/src/app/page.tsx, which has no isLoading state      *)
(* The React state is messages / inputValue / isLoading.  The handlers     *)
(* handleSend and handleKeyPress are closures created by a render: they    *)
(* read the inputValue and isLoading of that render (variable closure),    *)
(* while setMessages / setInputValue / setIsLoading update the state.      *)
(* Every accepted handleSend suspends at "await fetch" and then at         *)
(* "await response.json()"; a suspended invocation is a record of          *)
(* inflight.  timestamp (display only) and the scroll effect are omitted.  *)
(***************************************************************************)
EXTENDS Integers, Sequences, FiniteSets, TLC

\* ---- bounds ------------------------------------------------------------
MaxTurns == 2
MaxClock == 3

\* ---- texts -------------------------------------------------------------
\* A text is a sequence of tokens; a draft is a sequence of characters.
\* The drafts typed: empty, whitespace only, a word, a word with whitespace
\* on both sides, and a lone surrogate (half of a character outside the
\* basic plane, which a textarea can hold).
Whitespace == {" "}
LoneSurrogate == "U+D800"
Drafts == {<<>>, <<" ">>, <<"a">>, <<" ", "a", " ">>, <<LoneSurrogate>>}
Greeting == <<"Hello! I'm LineDrive AI, an AI assistant created to answer questions about MLB players. How can I help you today?">>
Apology == <<"Sorry, I encountered an error. Please try again later.">>
Undefined == <<"undefined">>
Answers == {<<"Shohei Ohtani">>}
SeedId == 1
Keys == {"Enter", "a"}

\* String.prototype.trim: drops leading and trailing whitespace.
RECURSIVE TrimStart(_)
TrimStart(s) ==
  IF s = <<>> THEN <<>>
  ELSE IF Head(s) \in Whitespace THEN TrimStart(Tail(s)) ELSE s

RECURSIVE TrimEnd(_)
TrimEnd(s) ==
  IF s = <<>> THEN <<>>
  ELSE IF s[Len(s)] \in Whitespace THEN TrimEnd(SubSeq(s, 1, Len(s) - 1)) ELSE s

trim(s) == TrimEnd(TrimStart(s))

\* encodeURIComponent: a letter is kept, a space becomes %20; on a string
\* with a lone surrogate it throws URIError instead of returning.
URIError(s) == \E i \in 1..Len(s) : s[i] = LoneSurrogate

encodeURIComponent(s) == [i \in 1..Len(s) |-> IF s[i] = " " THEN "%20" ELSE s[i]]

\* ---- the answer service ------------------------------------------------
\* fetch resolves with a response; response.json() then reads it.  A
\* response has a status that is a success (ok) or not, and a body: a JSON
\* object (with or without the answer field), the JSON value null, or text
\* that is not JSON.
Bodies ==
  {[kind |-> "object", answer |-> a] : a \in Answers \cup {Undefined}}
    \cup {[kind |-> "null", answer |-> Undefined], [kind |-> "invalid", answer |-> Undefined]}
Responses == [ok : BOOLEAN, body : Bodies]

VARIABLES
  variant,     \* "flag" or "page": which component is mounted
  messages,    \* useState: the log
  inputValue,  \* useState: the draft
  isLoading,   \* useState (flag variant only; constantly FALSE in page)
  closure,     \* inputValue / isLoading seen by the handlers of the last render
  inflight,    \* suspended handleSend invocations (requests not yet settled)
  now,         \* Date.now()
  origin,      \* history: origin[i] = turn that appended messages[i] (0: seed)
  issued,      \* history: the turn and question= parameter of every fetch, in order
  settled,     \* history: outcome of every finished handleSend invocation
  lastEvent    \* history: the event handled by the last step

vars == <<variant, messages, inputValue, isLoading, closure, inflight, now,
          origin, issued, settled, lastEvent>>

state == <<messages, inputValue, isLoading, inflight, origin, issued, settled>>

\* The event of a step.  key, shift: the key of a keydown and its shiftKey
\* ("" and FALSE for another event); sent: it called handleSend;
\* prevented: it called preventDefault; io: what a request settled with
\* (NoIO when none did).
NoIO == [ok |-> FALSE, body |-> [kind |-> "none", answer |-> Undefined]]
Rejected == [ok |-> FALSE, body |-> [kind |-> "rejected", answer |-> Undefined]]
Event(key, sent, prevented, io) ==
  [key |-> key, shift |-> FALSE, sent |-> sent, prevented |-> prevented, io |-> io]

Init ==
  /\ variant \in {"flag", "page"}
  /\ messages = <<[id |-> SeedId, text |-> Greeting, sender |-> "assistant"]>>
  /\ inputValue = <<>>
  /\ isLoading = FALSE
  /\ closure = [inputValue |-> <<>>, isLoading |-> FALSE]
  /\ inflight = {}
  /\ now = SeedId + 1
  /\ origin = <<0>>
  /\ issued = <<>>
  /\ settled = <<>>
  /\ lastEvent = Event("", FALSE, FALSE, NoIO)

\* ---- handleSend, up to the first await -----------------------------------
\* The early return of each variant, on the values the closure sees.
Admits_flag_NoPendingGate(c) == ~(trim(c.inputValue) = <<>>)

Admits_flag(c) == ~(trim(c.inputValue) = <<>> \/ c.isLoading)

Admits_page_NoTrim(c) == ~(c.inputValue = <<>>)

Admits_page(c) == ~(trim(c.inputValue) = <<>>)

\* The suspended invocation: its turn, where it waits, the draft it was
\* called with, and (history) the log and the idleness at submission.
Invocation(turn, c) ==
  [turn |-> turn, pc |-> "fetch",
   draft |-> c.inputValue, base |-> messages, idle |-> (inflight = {})]

newUserMessage_Trimmed(c) == [id |-> now, text |-> trim(c.inputValue), sender |-> "user"]

newUserMessage(c) == [id |-> now, text |-> c.inputValue, sender |-> "user"]

\* The turn of the next accepted call (history).
Turns == Cardinality({i \in 1..Len(messages) : messages[i].sender = "user"})

assistantResponse(text) == [id |-> now, text |-> text, sender |-> "assistant"]

errorResponse == [id |-> now, text |-> Apology, sender |-> "assistant"]

Outcome(r, thrown) ==
  [turn |-> r.turn, outcome |-> IF thrown THEN "apology" ELSE "answer",
   propagated |-> FALSE]

handleSend_flag_KeepsDraft(c) ==
  IF ~Admits_flag(c)
  THEN UNCHANGED state
  ELSE IF URIError(c.inputValue)
  THEN /\ messages' = Append(Append(messages, newUserMessage(c)), errorResponse)
       /\ origin' = origin \o <<Turns + 1, Turns + 1>>
       /\ isLoading' = FALSE
       /\ settled' = Append(settled, Outcome([turn |-> Turns + 1], TRUE))
       /\ UNCHANGED <<inputValue, issued, inflight>>
  ELSE /\ messages' = Append(messages, newUserMessage(c))
       /\ origin' = Append(origin, Turns + 1)
       /\ isLoading' = TRUE
       /\ issued' = Append(issued, [turn |-> Turns + 1, question |-> encodeURIComponent(c.inputValue)])
       /\ inflight' = inflight \cup {Invocation(Turns + 1, c)}
       /\ UNCHANGED <<inputValue, settled>>

\* An accepted call runs to the first await.  When encodeURIComponent
\* throws, fetch is not called: catch and finally run in the same call, so
\* the updates of the whole body are batched (isLoading ends false).
handleSend_flag(c) ==
  IF ~Admits_flag(c)
  THEN UNCHANGED state
  ELSE IF URIError(c.inputValue)
  THEN /\ messages' = Append(Append(messages, newUserMessage(c)), errorResponse)
       /\ origin' = origin \o <<Turns + 1, Turns + 1>>
       /\ inputValue' = <<>>
       /\ isLoading' = FALSE
       /\ settled' = Append(settled, Outcome([turn |-> Turns + 1], TRUE))
       /\ UNCHANGED <<issued, inflight>>
  ELSE /\ messages' = Append(messages, newUserMessage(c))
       /\ origin' = Append(origin, Turns + 1)
       /\ inputValue' = <<>>
       /\ isLoading' = TRUE
       /\ issued' = Append(issued, [turn |-> Turns + 1, question |-> encodeURIComponent(c.inputValue)])
       /\ inflight' = inflight \cup {Invocation(Turns + 1, c)}
       /\ UNCHANGED settled

handleSend_page_EncodesOutsideTry(c) ==
  IF ~Admits_page(c)
  THEN UNCHANGED state
  ELSE IF URIError(c.inputValue)
  THEN /\ messages' = Append(messages, newUserMessage(c))
       /\ origin' = Append(origin, Turns + 1)
       /\ inputValue' = <<>>
       /\ UNCHANGED <<isLoading, issued, inflight, settled>>
  ELSE /\ messages' = Append(messages, newUserMessage(c))
       /\ origin' = Append(origin, Turns + 1)
       /\ inputValue' = <<>>
       /\ issued' = Append(issued, [turn |-> Turns + 1, question |-> encodeURIComponent(c.inputValue)])
       /\ inflight' = inflight \cup {Invocation(Turns + 1, c)}
       /\ UNCHANGED <<isLoading, settled>>

handleSend_page(c) ==
  IF ~Admits_page(c)
  THEN UNCHANGED state
  ELSE IF URIError(c.inputValue)
  THEN /\ messages' = Append(Append(messages, newUserMessage(c)), errorResponse)
       /\ origin' = origin \o <<Turns + 1, Turns + 1>>
       /\ inputValue' = <<>>
       /\ settled' = Append(settled, Outcome([turn |-> Turns + 1], TRUE))
       /\ UNCHANGED <<isLoading, issued, inflight>>
  ELSE /\ messages' = Append(messages, newUserMessage(c))
       /\ origin' = Append(origin, Turns + 1)
       /\ inputValue' = <<>>
       /\ issued' = Append(issued, [turn |-> Turns + 1, question |-> encodeURIComponent(c.inputValue)])
       /\ inflight' = inflight \cup {Invocation(Turns + 1, c)}
       /\ UNCHANGED <<isLoading, settled>>

\* ---- handleSend, after the awaits ----------------------------------------

\* What the try block does once response.json() has settled: thrown is TRUE
\* when the block throws (the body is not JSON, or data is null and
\* data.answer is a TypeError), and text is data.answer otherwise.
Decoded_IgnoresParseFailure(body) ==
  [thrown |-> body.kind = "null", text |-> body.answer]

Decoded_MissingAnswerThrows(body) ==
  [thrown |-> body.kind # "object" \/ body.answer = Undefined, text |-> body.answer]

Decoded(body) ==
  [thrown |-> body.kind # "object", text |-> body.answer]

\* try / catch: the message the invocation appends.
Appended(thrown, text) == IF thrown THEN errorResponse ELSE assistantResponse(text)

finish_flag_ResetOnlyInTry(r, thrown, text) ==
  /\ messages' = Append(messages, Appended(thrown, text))
  /\ origin' = Append(origin, r.turn)
  /\ isLoading' = (thrown /\ isLoading)
  /\ inflight' = inflight \ {r}
  /\ settled' = Append(settled, Outcome(r, thrown))
  /\ UNCHANGED <<inputValue, issued>>

finish_flag_Prepends(r, thrown, text) ==
  /\ messages' = <<Appended(thrown, text)>> \o messages
  /\ origin' = <<r.turn>> \o origin
  /\ isLoading' = FALSE
  /\ inflight' = inflight \ {r}
  /\ settled' = Append(settled, Outcome(r, thrown))
  /\ UNCHANGED <<inputValue, issued>>

finish_flag_ClearsDraft(r, thrown, text) ==
  /\ messages' = Append(messages, Appended(thrown, text))
  /\ origin' = Append(origin, r.turn)
  /\ isLoading' = FALSE
  /\ inputValue' = <<>>
  /\ inflight' = inflight \ {r}
  /\ settled' = Append(settled, Outcome(r, thrown))
  /\ UNCHANGED issued

\* try / catch / finally of the flag variant, from the point the try block
\* completes or throws.
finish_flag(r, thrown, text) ==
  /\ messages' = Append(messages, Appended(thrown, text))
  /\ origin' = Append(origin, r.turn)
  /\ isLoading' = FALSE
  /\ inflight' = inflight \ {r}
  /\ settled' = Append(settled, Outcome(r, thrown))
  /\ UNCHANGED <<inputValue, issued>>

finish_page_CatchOnlyLogs(r, thrown, text) ==
  /\ messages' = (IF thrown THEN messages ELSE Append(messages, Appended(thrown, text)))
  /\ origin' = (IF thrown THEN origin ELSE Append(origin, r.turn))
  /\ inflight' = inflight \ {r}
  /\ settled' = Append(settled, Outcome(r, thrown))
  /\ UNCHANGED <<inputValue, isLoading, issued>>

finish_page_DropsOldest(r, thrown, text) ==
  /\ messages' = Tail(Append(messages, Appended(thrown, text)))
  /\ origin' = Tail(Append(origin, r.turn))
  /\ inflight' = inflight \ {r}
  /\ settled' = Append(settled, Outcome(r, thrown))
  /\ UNCHANGED <<inputValue, isLoading, issued>>

\* try / catch of page.tsx.
finish_page(r, thrown, text) ==
  /\ messages' = Append(messages, Appended(thrown, text))
  /\ origin' = Append(origin, r.turn)
  /\ inflight' = inflight \ {r}
  /\ settled' = Append(settled, Outcome(r, thrown))
  /\ UNCHANGED <<inputValue, isLoading, issued>>

\* ---- events ---------------------------------------------------------------
\* None of these constrains closure': the specifications below say when
\* React renders.

\* textarea onChange.
updateDraft(t) ==
  /\ inputValue' = t
  /\ lastEvent' = Event("", FALSE, FALSE, NoIO)
  /\ UNCHANGED <<variant, messages, isLoading, inflight, now, origin, issued, settled>>

\* Turns are capped: a send that would be accepted is offered only below the cap.
Offered(admits) == admits => Turns < MaxTurns

handleKeyPress_flag_IgnoresShift(key, shift) ==
  /\ variant = "flag"
  /\ Offered(key = "Enter" /\ Admits_flag(closure))
  /\ IF key = "Enter"
     THEN /\ handleSend_flag(closure)
          /\ lastEvent' = [Event(key, TRUE, TRUE, NoIO) EXCEPT !.shift = shift]
     ELSE /\ UNCHANGED state
          /\ lastEvent' = [Event(key, FALSE, FALSE, NoIO) EXCEPT !.shift = shift]
  /\ UNCHANGED <<variant, now>>

handleKeyPress_flag(key, shift) ==
  /\ variant = "flag"
  /\ Offered(key = "Enter" /\ ~shift /\ Admits_flag(closure))
  /\ IF key = "Enter" /\ ~shift
     THEN /\ handleSend_flag(closure)
          /\ lastEvent' = [Event(key, TRUE, TRUE, NoIO) EXCEPT !.shift = shift]
     ELSE /\ UNCHANGED state
          /\ lastEvent' = [Event(key, FALSE, FALSE, NoIO) EXCEPT !.shift = shift]
  /\ UNCHANGED <<variant, now>>

handleKeyPress_page(key, shift) ==
  /\ variant = "page"
  /\ Offered(key = "Enter" /\ ~shift /\ Admits_page(closure))
  /\ IF key = "Enter" /\ ~shift
     THEN /\ handleSend_page(closure)
          /\ lastEvent' = [Event(key, TRUE, TRUE, NoIO) EXCEPT !.shift = shift]
     ELSE /\ UNCHANGED state
          /\ lastEvent' = [Event(key, FALSE, FALSE, NoIO) EXCEPT !.shift = shift]
  /\ UNCHANGED <<variant, now>>

\* button onClick; the rendered button is disabled by the closure's values.
click_flag ==
  /\ variant = "flag"
  /\ ~(trim(closure.inputValue) = <<>> \/ closure.isLoading)
  /\ Offered(Admits_flag(closure))
  /\ handleSend_flag(closure)
  /\ lastEvent' = Event("", TRUE, FALSE, NoIO)
  /\ UNCHANGED <<variant, now>>

click_page ==
  /\ variant = "page"
  /\ ~(trim(closure.inputValue) = <<>>)
  /\ Offered(Admits_page(closure))
  /\ handleSend_page(closure)
  /\ lastEvent' = Event("", TRUE, FALSE, NoIO)
  /\ UNCHANGED <<variant, now>>

\* await fetch(...) resolves: the invocation goes on to await response.json().
fetchResolve(r) ==
  /\ r.pc = "fetch"
  /\ inflight' = (inflight \ {r}) \cup {[r EXCEPT !.pc = "json"]}
  /\ lastEvent' = Event("", FALSE, FALSE, NoIO)
  /\ UNCHANGED <<variant, messages, inputValue, isLoading, now, origin, issued, settled>>

\* await fetch(...) rejects: catch (and finally).
fetchReject_flag(r) ==
  /\ variant = "flag"
  /\ r.pc = "fetch"
  /\ finish_flag(r, TRUE, Undefined)
  /\ lastEvent' = Event("", FALSE, FALSE, Rejected)
  /\ UNCHANGED <<variant, now>>

fetchReject_page(r) ==
  /\ variant = "page"
  /\ r.pc = "fetch"
  /\ finish_page(r, TRUE, Undefined)
  /\ lastEvent' = Event("", FALSE, FALSE, Rejected)
  /\ UNCHANGED <<variant, now>>

\* await response.json() settles on the response resp: the rest of the try
\* block, or catch.  Nothing reads resp before this point.
jsonSettle_flag(r, resp) ==
  /\ variant = "flag"
  /\ r.pc = "json"
  /\ finish_flag(r, Decoded(resp.body).thrown, Decoded(resp.body).text)
  /\ lastEvent' = Event("", FALSE, FALSE, resp)
  /\ UNCHANGED <<variant, now>>

jsonSettle_page(r, resp) ==
  /\ variant = "page"
  /\ r.pc = "json"
  /\ finish_page(r, Decoded(resp.body).thrown, Decoded(resp.body).text)
  /\ lastEvent' = Event("", FALSE, FALSE, resp)
  /\ UNCHANGED <<variant, now>>

\* The clock advances (it need not, between two readings).
tick ==
  /\ now < MaxClock
  /\ now' = now + 1
  /\ lastEvent' = Event("", FALSE, FALSE, NoIO)
  /\ UNCHANGED <<variant, state>>

\* ---- rendering ------------------------------------------------------------
\* React renders: the handlers are re-created over the current state.
Commit == closure' = [inputValue |-> inputValue', isLoading |-> isLoading']

render ==
  /\ closure # [inputValue |-> inputValue, isLoading |-> isLoading]
  /\ closure' = [inputValue |-> inputValue, isLoading |-> isLoading]
  /\ lastEvent' = Event("", FALSE, FALSE, NoIO)
  /\ UNCHANGED <<variant, state, now>>

\* ---- specifications -------------------------------------------------------
\* No handler reads an id or the clock, so the clock is held in every
\* specification but SpecClock.

\* Spec: the page in a browser.  React renders the updates of an event
\* before the next event is dispatched, so every step ends with a render.
\* (The updates made after an await are rendered a moment later; until then
\* the handlers see the isLoading of before, which is TRUE, and return.)
Next ==
  \/ \E t \in Drafts : updateDraft(t) /\ Commit
  \/ \E key \in Keys, shift \in BOOLEAN : handleKeyPress_flag(key, shift) /\ Commit
  \/ \E key \in Keys, shift \in BOOLEAN : handleKeyPress_page(key, shift) /\ Commit
  \/ click_flag /\ Commit
  \/ click_page /\ Commit
  \/ \E r \in inflight : fetchResolve(r) /\ Commit
  \/ \E r \in inflight : fetchReject_flag(r) /\ Commit
  \/ \E r \in inflight : fetchReject_page(r) /\ Commit
  \/ \E r \in inflight, resp \in Responses : jsonSettle_flag(r, resp) /\ Commit
  \/ \E r \in inflight, resp \in Responses : jsonSettle_page(r, resp) /\ Commit

Spec == Init /\ [][Next]_vars

\* SpecClock: Spec with a clock that runs.
NextClock ==
  \/ Next
  \/ tick /\ UNCHANGED closure

SpecClock == Init /\ [][NextClock]_vars

\* SpecBatched: the handlers of the flag variant called directly (a test, a
\* script dispatching events): the state updates of a call are batched and
\* the render is a step of its own, so a handler can be called again from
\* the closure of the same render.
InitFlag == Init /\ variant = "flag"

NextBatched ==
  \/ \E t \in Drafts : updateDraft(t) /\ UNCHANGED closure
  \/ \E key \in Keys, shift \in BOOLEAN : handleKeyPress_flag(key, shift) /\ UNCHANGED closure
  \/ click_flag /\ UNCHANGED closure
  \/ \E r \in inflight : fetchResolve(r) /\ UNCHANGED closure
  \/ \E r \in inflight : fetchReject_flag(r) /\ UNCHANGED closure
  \/ \E r \in inflight, resp \in Responses : jsonSettle_flag(r, resp) /\ UNCHANGED closure
  \/ render

SpecBatched == InitFlag /\ [][NextBatched]_vars

\* SpecFair: an answer service that settles every request.  The property
\* checked under it is about which messages the log holds, not their text,
\* so the user types drafts of at most one character and sends with Enter
\* or the button.
ShortDrafts == {t \in Drafts : Len(t) <= 1}

NextFair ==
  \/ \E t \in ShortDrafts : updateDraft(t) /\ Commit
  \/ handleKeyPress_flag("Enter", FALSE) /\ Commit
  \/ handleKeyPress_page("Enter", FALSE) /\ Commit
  \/ click_flag /\ Commit
  \/ click_page /\ Commit
  \/ \E r \in inflight : fetchResolve(r) /\ Commit
  \/ \E r \in inflight : fetchReject_flag(r) /\ Commit
  \/ \E r \in inflight : fetchReject_page(r) /\ Commit
  \/ \E r \in inflight, resp \in Responses : jsonSettle_flag(r, resp) /\ Commit
  \/ \E r \in inflight, resp \in Responses : jsonSettle_page(r, resp) /\ Commit

Fairness ==
  /\ WF_vars(\E r \in inflight : fetchResolve(r) /\ Commit)
  /\ WF_vars(\E r \in inflight, resp \in Responses : jsonSettle_flag(r, resp) /\ Commit)
  /\ WF_vars(\E r \in inflight, resp \in Responses : jsonSettle_page(r, resp) /\ Commit)

SpecFair == Init /\ [][NextFair]_vars /\ Fairness

TypeOK ==
  /\ variant \in {"flag", "page"}
  /\ inputValue \in Drafts
  /\ isLoading \in BOOLEAN
  /\ Len(messages) = Len(origin)
  /\ Turns <= MaxTurns

\* ---- claims ---------------------------------------------------------------
UserMessages == {i \in 1..Len(messages) : messages[i].sender = "user"}

\* C1: in both variants at most one request to the answer service is in
\* flight, and in the flag variant isLoading is true exactly when a request
\* is in flight.
C1_SingleFlight ==
  /\ Cardinality(inflight) <= 1
  /\ variant = "flag" => (isLoading <=> inflight # {})

\* C2: a call of handleSend while isLoading is true changes nothing: the
\* log, the draft and isLoading stay as they are and no request is issued,
\* whatever the draft.
C2_SubmitWhilePendingIsNoOp ==
  [][(lastEvent'.sent /\ isLoading)
       => UNCHANGED <<messages, inputValue, isLoading, inflight, issued>>]_vars

\* A send was called with a non-blank draft while a request was pending (an
\* accepted send would have emptied the draft).
C2_Witness ==
  /\ variant = "flag"
  /\ lastEvent.sent
  /\ isLoading
  /\ inflight # {}
  /\ trim(inputValue) # <<>>

\* C3: when handleSend is called again from the closure of the render in
\* which a call was just accepted (the state is pending, the closure still
\* sees isLoading false and the draft), and the first request has not
\* settled, the second call appends no user message and issues no request.
C3_SecondCallFromSameClosureAppendsNothing ==
  [][(lastEvent'.sent /\ isLoading /\ ~closure.isLoading /\ inflight # {})
       => UNCHANGED <<messages, issued>>]_vars

\* C4: while no request is in flight, every user message is followed
\* immediately by an assistant message (so no two user messages are adjacent
\* and the log does not end with a user message), in both variants.
C4_IdleUserFollowedByAssistant ==
  (inflight = {} /\ ~isLoading) =>
    \A i \in UserMessages :
      i < Len(messages) /\ messages[i + 1].sender = "assistant"

\* The invocation that the step settles, and the message it appends.
SettledTurn == settled'[Len(settled')].turn
SettledInvocation == CHOOSE r \in inflight : r.turn = SettledTurn
Settles == Len(settled') = Len(settled) + 1
AppendedMessage == messages'[Len(messages')]
AssistantMessagesOf(log, org, t) ==
  {i \in 1..Len(log) : org[i] = t /\ log[i].sender = "assistant"}
UserMessagesOf(log, org, t) ==
  {i \in 1..Len(log) : org[i] = t /\ log[i].sender = "user"}

\* C5: isLoading is set at submission (flag variant) and is false after
\* every completion of a request, whether it resolved or failed; the
\* session is never pending with no request in flight.
C5_PendingResetOnEveryCompletion ==
  [][/\ Settles => ~isLoading'
     /\ (variant = "flag" /\ Len(issued') > Len(issued)) => isLoading'
     /\ inflight' = {} => ~isLoading']_vars

\* Two turns of the flag variant are complete, one answered and one failed.
C5_Witness ==
  /\ variant = "flag"
  /\ ~isLoading
  /\ \E i, j \in 1..Len(settled) :
       settled[i].outcome = "answer" /\ settled[j].outcome = "apology"

\* C6: a call of handleSend with an empty or whitespace-only draft changes
\* nothing, in any state: the log, the draft and isLoading stay as they are
\* and no request is issued.
C6_BlankSubmitIsNoOp ==
  [][(lastEvent'.sent /\ trim(closure.inputValue) = <<>>)
       => UNCHANGED <<messages, inputValue, isLoading, inflight, issued>>]_vars

\* Enter was pressed on a draft of whitespace only.
C6_Witness ==
  /\ lastEvent.sent
  /\ inputValue # <<>>
  /\ trim(inputValue) = <<>>

\* C7: when fetch rejects or the body is not JSON, the invocation appends
\* one assistant message with the apology text, it is the only assistant
\* message of its turn and comes after the turn's user message, nothing is
\* thrown to the caller and isLoading is false afterwards.
C7_FailureAppendsApology ==
  [][(lastEvent'.io.body.kind \in {"rejected", "invalid"}) =>
       /\ Settles
       /\ messages' = Append(messages, AppendedMessage)
       /\ AppendedMessage.text = Apology
       /\ AppendedMessage.sender = "assistant"
       /\ AssistantMessagesOf(messages', origin', SettledTurn) = {Len(messages')}
       /\ \E i \in UserMessagesOf(messages, origin, SettledTurn) : i < Len(messages')
       /\ ~settled'[Len(settled')].propagated
       /\ ~isLoading']_vars

\* A request has just failed on a body that is not JSON.
C7_Witness ==
  /\ lastEvent.io.body.kind = "invalid"
  /\ messages[Len(messages)].text = Apology
  /\ ~isLoading

\* C8: in the flag variant, when a turn submitted while idle resolves with
\* a success status and an object carrying an answer, the log is the log at
\* submission followed by a user message with the draft as typed (not
\* trimmed) and an assistant message with the answer; isLoading is false.
C8_AnsweredTurnAppendsTwo ==
  [][(/\ variant = "flag"
      /\ lastEvent'.io.ok
      /\ lastEvent'.io.body.kind = "object"
      /\ lastEvent'.io.body.answer \in Answers
      /\ SettledInvocation.idle) =>
       LET n == Len(SettledInvocation.base) IN
         /\ Len(messages') = n + 2
         /\ SubSeq(messages', 1, n) = SettledInvocation.base
         /\ messages'[n + 1].sender = "user"
         /\ messages'[n + 1].text = SettledInvocation.draft
         /\ messages'[n + 2].sender = "assistant"
         /\ messages'[n + 2].text = lastEvent'.io.body.answer
         /\ ~isLoading']_vars

\* The second turn of a session was just answered; its question has
\* whitespace around it.
C8_Witness ==
  /\ variant = "flag"
  /\ lastEvent.io.ok
  /\ lastEvent.io.body.kind = "object"
  /\ lastEvent.io.body.answer \in Answers
  /\ Len(messages) = 5
  /\ messages[4].text # trim(messages[4].text)
  /\ messages[5].text \in Answers

\* C10: turns do not interleave: the log is the seed, then for each turn in
\* order its user message followed by its assistant message.
C10_TurnsDoNotInterleave ==
  \A i \in 1..Len(messages) :
    /\ origin[i] = i \div 2
    /\ messages[i].sender = (IF i > 1 /\ i % 2 = 0 THEN "user" ELSE "assistant")

\* C9: with an answer service that settles every request, every user
\* message is eventually followed by exactly one assistant message of its
\* own turn, and at no time is there a second one.
C9_EveryUserMessageAnsweredOnce ==
  \A t \in 1..MaxTurns :
    /\ [](Cardinality(AssistantMessagesOf(messages, origin, t)) <= 1)
    /\ (UserMessagesOf(messages, origin, t) # {})
         ~> (\E i \in UserMessagesOf(messages, origin, t) :
               \E j \in AssistantMessagesOf(messages, origin, t) :
                 /\ i < j
                 /\ AssistantMessagesOf(messages, origin, t) = {j})

\* In page.tsx two requests were in flight together and both turns have
\* their assistant message, one an answer and one the apology.
C9_Witness ==
  /\ variant = "page"
  /\ inflight = {}
  /\ origin = <<0, 1, 2, 1, 2>>
  /\ \E i, j \in 1..Len(settled) :
       settled[i].outcome = "answer" /\ settled[j].outcome = "apology"

\* C11: the log is never empty and its first message is the greeting, from
\* the assistant.
C11_SeedGreetingFirst ==
  /\ Len(messages) >= 1
  /\ messages[1].text = Greeting
  /\ messages[1].sender = "assistant"
  /\ messages[1].id = SeedId

\* Two turns are complete and the greeting is still the first message.
C11_Witness ==
  /\ Len(messages) = 5
  /\ inflight = {}
  /\ messages[1].text = Greeting

\* C12: the log is append-only: every step leaves the log it found as a
\* prefix of the new log, in both variants.
C12_LogAppendOnly ==
  [][/\ Len(messages') >= Len(messages)
     /\ SubSeq(messages', 1, Len(messages)) = messages]_vars

\* A response was just appended to a log that already held a complete turn.
C12_Witness ==
  /\ lastEvent.io.body.kind # "none"
  /\ Len(messages) >= 5
  /\ messages[Len(messages)].sender = "assistant"

\* C13: an accepted call of handleSend clears the draft in the same step
\* that appends the user message: when the request is issued, the step ends
\* with the user message last in the log, the draft empty and the request
\* waiting on fetch.
C13_DraftClearedAtSubmission ==
  [][(lastEvent'.sent /\ Len(messages') > Len(messages)) =>
       /\ inputValue' = <<>>
       /\ messages'[Len(messages) + 1].sender = "user"
       /\ messages'[Len(messages) + 1].text = closure.inputValue
       /\ (Len(issued') > Len(issued)) =>
            /\ Len(messages') = Len(messages) + 1
            /\ \E r \in inflight' \ inflight :
                 r.pc = "fetch" /\ r.turn = origin'[Len(messages')]]_vars

\* A turn was just accepted: its request waits on fetch, its user message is
\* the last of the log and the draft is empty.
C13_Witness ==
  /\ lastEvent.sent
  /\ inputValue = <<>>
  /\ messages[Len(messages)].sender = "user"
  /\ \E r \in inflight : r.pc = "fetch" /\ r.turn = origin[Len(messages)]

\* C14: a keydown of Enter without shift calls handleSend once with the
\* draft of the current render and prevents the default newline; any other
\* key, and Enter with shift, calls nothing, prevents nothing and changes
\* no state of the session.
C14_KeyCommit ==
  [][lastEvent'.key # "" =>
       LET commit == lastEvent'.key = "Enter" /\ ~lastEvent'.shift
           blank == trim(inputValue) = <<>>
           gated == variant = "flag" /\ isLoading
       IN /\ lastEvent'.sent <=> commit
          /\ lastEvent'.prevented <=> commit
          /\ ~commit => UNCHANGED state
          /\ (commit /\ (blank \/ gated)) => UNCHANGED state
          /\ (commit /\ ~blank /\ ~gated) =>
               /\ Cardinality(UserMessages') = Cardinality(UserMessages) + 1
               /\ messages'[Len(messages) + 1].sender = "user"
               /\ messages'[Len(messages) + 1].text = inputValue
               /\ Len(issued') <= Len(issued) + 1]_vars

\* Enter with shift held was pressed on a draft that a plain Enter would
\* have sent, and nothing was sent.
C14_Witness ==
  /\ lastEvent.key = "Enter"
  /\ lastEvent.shift
  /\ ~lastEvent.sent
  /\ trim(inputValue) # <<>>
  /\ ~isLoading

\* C15: all messages of the log have pairwise distinct ids, the clock being
\* free to stand still between two message creations.
C15_IdsPairwiseDistinct ==
  \A i, j \in 1..Len(messages) : i # j => messages[i].id # messages[j].id

\* C16: a response with a non-success status is a failure: applying it
\* appends the apology and no text of the body, even when the body is JSON.
C16_NonSuccessStatusAppendsApology ==
  [][(/\ Settles
      /\ lastEvent'.io.body.kind \in {"object", "null", "invalid"}
      /\ ~lastEvent'.io.ok) =>
       /\ AppendedMessage.sender = "assistant"
       /\ AppendedMessage.text = Apology]_vars

\* C17 as stated: every response whose body decodes (a JSON object or the
\* JSON value null) and carries no answer field appends exactly one assistant
\* message with the undefined text, no apology, and leaves isLoading false.
C17_EveryDecodedBodyWithoutAnswer ==
  [][(/\ Settles
      /\ lastEvent'.io.body.kind \in {"object", "null"}
      /\ lastEvent'.io.body.answer = Undefined) =>
       /\ messages' = Append(messages, AppendedMessage)
       /\ AppendedMessage.sender = "assistant"
       /\ AppendedMessage.text = Undefined
       /\ AppendedMessage.text # Apology
       /\ ~isLoading']_vars

\* C17 amended: a response whose body decodes to a JSON value other than
\* null and carries no answer field appends exactly one assistant message
\* with the undefined text, no apology, and leaves isLoading false; the body
\* null makes the read of data.answer throw and is a failure (C7).
C17_ObjectWithoutAnswerNotDistinguished ==
  [][(/\ Settles
      /\ lastEvent'.io.body.kind = "object"
      /\ lastEvent'.io.body.answer = Undefined) =>
       /\ messages' = Append(messages, AppendedMessage)
       /\ AppendedMessage.sender = "assistant"
       /\ AppendedMessage.text = Undefined
       /\ AppendedMessage.text # Apology
       /\ settled'[Len(settled')].outcome = "answer"
       /\ ~isLoading']_vars

\* A response with a JSON object without the answer field was just applied:
\* the last message is the assistant's, with the undefined text.
C17_Witness ==
  /\ lastEvent.io.body.kind = "object"
  /\ lastEvent.io.body.answer = Undefined
  /\ messages[Len(messages)].sender = "assistant"
  /\ messages[Len(messages)].text = Undefined
  /\ ~isLoading

\* C18: the question of every request is the trimmed draft of its turn,
\* URL-encoded, while the user message of the turn keeps the draft as typed.
C18_QuestionIsTrimmedDraft ==
  \A k \in 1..Len(issued) :
    \A i \in UserMessagesOf(messages, origin, issued[k].turn) :
      issued[k].question = encodeURIComponent(trim(messages[i].text))

\* C19: applying the outcome of a request leaves the draft as it is, and a
\* change of the draft that is not a submission changes neither the log nor
\* isLoading nor the requests.
C19_OutcomeLeavesDraft ==
  [][/\ (Settles /\ lastEvent'.io.body.kind # "none") =>
          /\ inputValue' = inputValue
          /\ Len(messages') = Len(messages) + 1
          /\ ~isLoading'
     /\ (inputValue' # inputValue /\ ~lastEvent'.sent) =>
          UNCHANGED <<messages, isLoading, inflight, issued, settled>>]_vars

\* An outcome was just applied while the draft held text typed during the
\* request: the text is still the draft.
C19_Witness ==
  /\ lastEvent.io.body.kind # "none"
  /\ messages[Len(messages)].sender = "assistant"
  /\ Len(messages) >= 3
  /\ inputValue # <<>>
  /\ ~isLoading

RequestsOf(t) == {k \in 1..Len(issued) : issued[k].turn = t}
NonSeedAssistantMessages ==
  {i \in 2..Len(messages) : messages[i].sender = "assistant"}
C20_Counts ==
  /\ Cardinality(UserMessages) - Cardinality(NonSeedAssistantMessages)
       = Cardinality(inflight)
  /\ Len(messages) = 1 + 2 * Len(settled) + Cardinality(inflight)
  /\ \A k \in 1..Len(issued) :
       Cardinality(AssistantMessagesOf(messages, origin, issued[k].turn))
         = IF \E r \in inflight : r.turn = issued[k].turn THEN 0 ELSE 1

\* C20 as stated: user messages minus non-seed assistant messages is the
\* number of requests in flight, the log has 1 + 2 x completed turns +
\* in-flight requests messages, every accepted turn has issued exactly one
\* request and every request appends exactly one assistant message.
C20_ExactlyOneRequestPerTurn ==
  /\ C20_Counts
  /\ \A t \in 1..Turns : Cardinality(RequestsOf(t)) = 1

\* C20 amended: the same counts, and every accepted turn has issued at most
\* one request: exactly one, unless encoding its draft throws, and then none,
\* the apology being appended by the submission itself.
C20_AtMostOneRequestPerTurn ==
  /\ C20_Counts
  /\ \A t \in 1..Turns :
       \A i \in UserMessagesOf(messages, origin, t) :
         /\ Cardinality(RequestsOf(t)) = IF URIError(messages[i].text) THEN 0 ELSE 1
         /\ URIError(messages[i].text) =>
              /\ AssistantMessagesOf(messages, origin, t) = {i + 1}
              /\ messages[i + 1].text = Apology

\* One turn failed on encoding its draft and issued no request, and the
\* request of another turn is in flight.
C20_Witness ==
  /\ Turns = 2
  /\ Len(issued) = 1
  /\ Cardinality(inflight) = 1
  /\ Len(messages) = 4
  /\ \E i \in UserMessages : URIError(messages[i].text)
====
